---- MODULE Spec2Model ----
(***************************************************************************)
(* Disk usage status item of jupyter-resource-usage                        *)
(* (packages/labextension/src/diskUsage.tsx): DiskUsage.Model, the ticked  *)
(* handler it connects to its Poll, and the unit conversion it imports.    *)
(*                                                                         *)
(* A JavaScript number that results from a division is kept as a reduced   *)
(* fraction <<numerator, denominator>>, so that !== on two numbers is      *)
(* equality of the two fractions.  null is the empty tuple.                *)
(***************************************************************************)
EXTENDS Integers, Sequences, FiniteSets, TLC

VARIABLES metricsAvailable, diskUsed, diskTotal, units, warn,
          pollState, raised, inflight, isDisposed,
          emitted, observed, old, done, prevDone, disposedFrom,
          convIn, convOut

modelVars == <<metricsAvailable, diskUsed, diskTotal, units, warn>>
\* raised: the ticked events the step that led to this state has raised.
\* emitted: the stateChanged emissions of the step that led to this state.
\* observed: what the accessors returned during that emission (null if none).
\* old: the snapshot held just before the last completed tick.
\* done, prevDone: the last two completed (resolved or rejected) ticks.
\* disposedFrom: the poll phase at which dispose() was first called.
histVars  == <<old, done, prevDone>>
convVars  == <<convIn, convOut>>
vars == <<metricsAvailable, diskUsed, diskTotal, units, warn,
          pollState, raised, inflight, isDisposed,
          emitted, observed, old, done, prevDone, disposedFrom,
          convIn, convOut>>

----------------------------------------------------------------------------
(* Bounds of the explored inputs.                                          *)

\* convertToLargestUnit is explored on every byte count 0..MaxConvBytes and
\* on the byte counts around the larger multipliers.
MaxConvBytes == 1100

\* Byte counts a metrics response carries as disk_used.
UsedBytes == {0, 1, 512, 1000, 1500, 2000000000}

\* Byte counts a metrics response carries as disk_total.
TotalBytes == {0, 2048, 1000000, 2000000000}

\* Failures a fetch can reject with.
Errors == {"NetworkFailure", "MalformedResponse"}

----------------------------------------------------------------------------
(* Numbers.                                                                *)

null == <<>>

RECURSIVE GCD(_, _)
GCD(a, b) == IF b = 0 THEN a ELSE GCD(b, a % b)

\* a / b for a >= 0, b > 0, as a reduced fraction.
Div(a, b) == LET g == GCD(a, b) IN <<a \div g, b \div g>>

Zero == <<0, 1>>

----------------------------------------------------------------------------
(* format: MemoryUnit, MEMORY_UNIT_LIMITS, convertToLargestUnit.           *)

\* The unit table, largest multiplier first.  It stops at GB: the next
\* multiplier does not fit the 32-bit integers of the model checker.
MemoryUnit == <<"GB", "MB", "KB", "B">>

MEMORY_UNIT_LIMITS ==
    [u \in {"B", "KB", "MB", "GB"} |->
        CASE u = "B"  -> 1
          [] u = "KB" -> 1000
          [] u = "MB" -> 1000000
          [] u = "GB" -> 1000000000]

\* First unit, from position i of the table on, whose multiplier is <= bytes;
\* the smallest unit when there is none.
RECURSIVE pickUnitStrict(_, _)
pickUnitStrict(numBytes, i) ==
    IF i >= Len(MemoryUnit) THEN MemoryUnit[Len(MemoryUnit)]
    ELSE IF MEMORY_UNIT_LIMITS[MemoryUnit[i]] < numBytes THEN MemoryUnit[i]
    ELSE pickUnitStrict(numBytes, i + 1)

RECURSIVE pickUnit(_, _)
pickUnit(numBytes, i) ==
    IF i >= Len(MemoryUnit) THEN MemoryUnit[Len(MemoryUnit)]
    ELSE IF MEMORY_UNIT_LIMITS[MemoryUnit[i]] <= numBytes THEN MemoryUnit[i]
    ELSE pickUnit(numBytes, i + 1)

convertToLargestUnit(numBytes) ==
    LET u == pickUnit(numBytes, 1)
    IN  <<Div(numBytes, MEMORY_UNIT_LIMITS[u]), u>>

----------------------------------------------------------------------------
(* Private.IMetricRequestResult | null: what response.json() resolves to.  *)

NullPayload ==
    [isNull |-> TRUE, hasUsed |-> FALSE, disk_used |-> 0,
     hasTotal |-> FALSE, disk_total |-> 0]

Payloads ==
    {NullPayload}
    \cup { [isNull |-> FALSE, hasUsed |-> FALSE, disk_used |-> 0,
            hasTotal |-> FALSE, disk_total |-> 0] }
    \cup { [isNull |-> FALSE, hasUsed |-> FALSE, disk_used |-> 0,
            hasTotal |-> TRUE, disk_total |-> t] : t \in TotalBytes }
    \cup { [isNull |-> FALSE, hasUsed |-> TRUE, disk_used |-> b,
            hasTotal |-> FALSE, disk_total |-> 0] : b \in UsedBytes }
    \cup { [isNull |-> FALSE, hasUsed |-> TRUE, disk_used |-> b,
            hasTotal |-> TRUE, disk_total |-> t] :
            b \in UsedBytes, t \in TotalBytes }

----------------------------------------------------------------------------
(* DiskUsage.Model                                                         *)

\* The fields the accessors expose.
Snapshot ==
    [used |-> diskUsed, total |-> diskTotal, unit |-> units,
     available |-> metricsAvailable, warn |-> warn]

NoTick == [phase |-> "none", payload |-> NullPayload, error |-> "none"]

valuesChangedNoTotal(oldDiskUsed, oldUnits, oldDiskTotal, oldAvailable) ==
    \/ diskUsed' # oldDiskUsed
    \/ units' # oldUnits
    \/ metricsAvailable' # oldAvailable

valuesChangedByRef(oldDiskUsed, oldUnits, oldDiskTotal, oldAvailable) ==
    TRUE

valuesChangedNoAvailable(oldDiskUsed, oldUnits, oldDiskTotal, oldAvailable) ==
    \/ diskUsed' # oldDiskUsed
    \/ units' # oldUnits
    \/ diskTotal' # oldDiskTotal

\* The comparison that guards stateChanged.emit in _updateMetricsValues.
valuesChanged(oldDiskUsed, oldUnits, oldDiskTotal, oldAvailable) ==
    \/ diskUsed' # oldDiskUsed
    \/ units' # oldUnits
    \/ diskTotal' # oldDiskTotal
    \/ metricsAvailable' # oldAvailable

scaleTotalUnscaled(value, unit) ==
    IF value.hasTotal /\ value.disk_total # 0
    THEN Div(value.disk_total, 1)
    ELSE null

scaleTotalMissingAsZero(value, unit) ==
    IF value.hasTotal /\ value.disk_total # 0
    THEN Div(value.disk_total, MEMORY_UNIT_LIMITS[unit])
    ELSE Zero

\* diskTotal ? diskTotal / MEMORY_UNIT_LIMITS[units] : null
scaleTotal(value, unit) ==
    IF value.hasTotal /\ value.disk_total # 0
    THEN Div(value.disk_total, MEMORY_UNIT_LIMITS[unit])
    ELSE null

updateMetricsValuesWarns(value) ==
    LET oldMetricsAvailable == metricsAvailable
        oldDiskUsed == diskUsed
        oldDiskTotal == diskTotal
        oldUnits == units
    IN  /\ IF value.isNull \/ ~value.hasUsed
           THEN /\ metricsAvailable' = FALSE
                /\ diskUsed' = Zero
                /\ diskTotal' = null
                /\ units' = "B"
                /\ warn' = FALSE
           ELSE LET diskUsedBytes == value.disk_used
                    conv == convertToLargestUnit(diskUsedBytes)
                IN  /\ metricsAvailable' = TRUE
                    /\ diskUsed' = conv[1]
                    /\ units' = conv[2]
                    /\ diskTotal' = scaleTotal(value, conv[2])
                    /\ warn' = (value.hasTotal /\ value.disk_total # 0
                                  /\ value.disk_used >= value.disk_total)
        /\ emitted' =
             IF valuesChanged(oldDiskUsed, oldUnits, oldDiskTotal,
                              oldMetricsAvailable)
             THEN 1 ELSE 0
        /\ observed' = IF emitted' = 1 THEN Snapshot' ELSE null

updateMetricsValues(value) ==
    LET oldMetricsAvailable == metricsAvailable
        oldDiskUsed == diskUsed
        oldDiskTotal == diskTotal
        oldUnits == units
    IN  /\ IF value.isNull \/ ~value.hasUsed
           THEN /\ metricsAvailable' = FALSE
                /\ diskUsed' = Zero
                /\ diskTotal' = null
                /\ units' = "B"
                /\ warn' = FALSE
           ELSE LET diskUsedBytes == value.disk_used
                    conv == convertToLargestUnit(diskUsedBytes)
                IN  /\ metricsAvailable' = TRUE
                    /\ diskUsed' = conv[1]
                    /\ units' = conv[2]
                    /\ diskTotal' = scaleTotal(value, conv[2])
                    /\ warn' = warn
        /\ emitted' =
             IF valuesChanged(oldDiskUsed, oldUnits, oldDiskTotal,
                              oldMetricsAvailable)
             THEN 1 ELSE 0
        /\ observed' = IF emitted' = 1 THEN Snapshot' ELSE null

rejectedBranchAlwaysEmits ==
    /\ metricsAvailable' = FALSE
    /\ diskUsed' = Zero
    /\ diskTotal' = null
    /\ units' = "B"
    /\ warn' = warn
    /\ emitted' = 1
    /\ observed' = Snapshot'

rejectedBranchKeepsTotal ==
    LET oldMetricsAvailable == metricsAvailable
    IN  /\ metricsAvailable' = FALSE
        /\ diskUsed' = Zero
        /\ diskTotal' = diskTotal
        /\ units' = "B"
        /\ warn' = warn
        /\ emitted' = IF oldMetricsAvailable THEN 1 ELSE 0
        /\ observed' = IF emitted' = 1 THEN Snapshot' ELSE null

rejectedBranchKeepsUnits ==
    LET oldMetricsAvailable == metricsAvailable
    IN  /\ metricsAvailable' = FALSE
        /\ diskUsed' = Zero
        /\ diskTotal' = null
        /\ units' = units
        /\ warn' = warn
        /\ emitted' = IF oldMetricsAvailable THEN 1 ELSE 0
        /\ observed' = IF emitted' = 1 THEN Snapshot' ELSE null

rejectedBranchKeepsUsed ==
    LET oldMetricsAvailable == metricsAvailable
    IN  /\ metricsAvailable' = FALSE
        /\ diskUsed' = diskUsed
        /\ diskTotal' = null
        /\ units' = "B"
        /\ warn' = warn
        /\ emitted' = IF oldMetricsAvailable THEN 1 ELSE 0
        /\ observed' = IF emitted' = 1 THEN Snapshot' ELSE null

rejectedBranchEmitsEarly ==
    LET oldMetricsAvailable == metricsAvailable
    IN  /\ metricsAvailable' = FALSE
        /\ diskUsed' = Zero
        /\ diskTotal' = null
        /\ units' = "B"
        /\ warn' = warn
        /\ emitted' = IF oldMetricsAvailable THEN 1 ELSE 0
        /\ observed' = IF emitted' = 1
                       THEN [used |-> Zero, total |-> diskTotal,
                             unit |-> units, available |-> FALSE,
                             warn |-> warn]
                       ELSE null

\* The phase === 'rejected' branch of the ticked handler.
rejectedBranch ==
    LET oldMetricsAvailable == metricsAvailable
    IN  /\ metricsAvailable' = FALSE
        /\ diskUsed' = Zero
        /\ diskTotal' = null
        /\ units' = "B"
        /\ warn' = warn
        /\ emitted' = IF oldMetricsAvailable THEN 1 ELSE 0
        /\ observed' = IF emitted' = 1 THEN Snapshot' ELSE null

tickedElseRejected(state) ==
    IF state.phase = "resolved" THEN updateMetricsValues(state.payload)
    ELSE rejectedBranch

\* The handler connected to this._poll.ticked; it reads poll.state.
ticked(state) ==
    IF state.phase = "resolved" THEN updateMetricsValues(state.payload)
    ELSE IF state.phase = "rejected" THEN rejectedBranch
    ELSE /\ UNCHANGED modelVars
         /\ emitted' = 0
         /\ observed' = null

----------------------------------------------------------------------------
(* DiskUsage.render                                                        *)

DECIMAL_PLACES == 2

RECURSIVE Pow10(_)
Pow10(n) == IF n = 0 THEN 1 ELSE 10 * Pow10(n - 1)

\* What calling toFixed on null does.
TypeError == [threw |-> TRUE, int |-> 0, frac |-> 0]

\* Number.prototype.toFixed: integer part and the digits after the point,
\* rounded half up.
toFixed(x, digits) ==
    IF x = null THEN TypeError
    ELSE LET scale == Pow10(digits)
             q == x[1] \div x[2]
             r == x[1] % x[2]
             f == (2 * r * scale + x[2]) \div (2 * x[2])
         IN  IF f = scale
             THEN [threw |-> FALSE, int |-> q + 1, frac |-> 0]
             ELSE [threw |-> FALSE, int |-> q, frac |-> f]

\* <div></div>
EmptyDiv ==
    [element |-> "div", used |-> toFixed(Zero, 0), total |-> toFixed(Zero, 0),
     units |-> "", warning |-> FALSE]

renderChecksAvailable ==
    IF ~metricsAvailable
    THEN EmptyDiv
    ELSE [element |-> "TextItem",
          used |-> toFixed(diskUsed, DECIMAL_PLACES),
          total |-> toFixed(diskTotal, DECIMAL_PLACES),
          units |-> units,
          warning |-> warn]

\* DiskUsage.render(); this.model is the model built in the constructor.
render ==
    IF diskTotal = null
    THEN EmptyDiv
    ELSE [element |-> "TextItem",
          used |-> toFixed(diskUsed, DECIMAL_PLACES),
          total |-> toFixed(diskTotal, DECIMAL_PLACES),
          units |-> units,
          warning |-> warn]

----------------------------------------------------------------------------
(* Bookkeeping of the ticks handled.                                       *)

\* The bookkeeping of a completed (resolved or rejected) tick.
recordDone(state) ==
    /\ old' = Snapshot
    /\ done' = state
    /\ prevDone' = done

----------------------------------------------------------------------------
(* Poll: one fetch at a time; every transition raises ticked.              *)

StartFetchOverlapping ==
    /\ pollState.phase \in {"idle", "pending", "resolved", "rejected"}
    /\ pollState' = [phase |-> "pending", payload |-> NullPayload,
                     error |-> "none"]
    /\ inflight' = inflight + 1
    /\ ticked(pollState')
    /\ raised' = <<pollState'>>
    /\ UNCHANGED <<isDisposed, disposedFrom, histVars, convVars>>

StartFetchStopsAfterRejection ==
    /\ pollState.phase \in {"idle", "resolved"}
    /\ pollState' = [phase |-> "pending", payload |-> NullPayload,
                     error |-> "none"]
    /\ inflight' = inflight + 1
    /\ ticked(pollState')
    /\ raised' = <<pollState'>>
    /\ UNCHANGED <<isDisposed, disposedFrom, histVars, convVars>>

StartFetchSilent ==
    /\ pollState.phase \in {"idle", "resolved", "rejected"}
    /\ pollState' = [phase |-> "pending", payload |-> NullPayload,
                     error |-> "none"]
    /\ inflight' = inflight + 1
    /\ emitted' = 0
    /\ observed' = null
    /\ raised' = <<>>
    /\ UNCHANGED <<modelVars, isDisposed, disposedFrom, histVars, convVars>>

\* The timer fires (or the poll starts): Private.factory() is called.
\* inflight counts the promises of Private.factory() not yet settled.
StartFetch ==
    /\ pollState.phase \in {"idle", "resolved", "rejected"}
    /\ pollState' = [phase |-> "pending", payload |-> NullPayload,
                     error |-> "none"]
    /\ inflight' = inflight + 1
    /\ ticked(pollState')
    /\ raised' = <<pollState'>>
    /\ UNCHANGED <<isDisposed, disposedFrom, histVars, convVars>>

\* The promise of Private.factory() resolves with the parsed body.
FetchResolves ==
    \E p \in Payloads :
        /\ inflight > 0
        /\ inflight' = inflight - 1
        /\ IF pollState.phase = "disposed"
           THEN /\ emitted' = 0
                /\ observed' = null
                /\ raised' = <<>>
                /\ UNCHANGED <<pollState, modelVars, histVars>>
           ELSE /\ pollState' = [phase |-> "resolved", payload |-> p,
                                 error |-> "none"]
                /\ ticked(pollState')
                /\ raised' = <<pollState'>>
                /\ recordDone(pollState')
        /\ UNCHANGED <<isDisposed, disposedFrom, convVars>>

\* The promise of Private.factory() rejects.
FetchRejects ==
    \E e \in Errors :
        /\ inflight > 0
        /\ inflight' = inflight - 1
        /\ IF pollState.phase = "disposed"
           THEN /\ emitted' = 0
                /\ observed' = null
                /\ raised' = <<>>
                /\ UNCHANGED <<pollState, modelVars, histVars>>
           ELSE /\ pollState' = [phase |-> "rejected",
                                 payload |-> NullPayload, error |-> e]
                /\ ticked(pollState')
                /\ raised' = <<pollState'>>
                /\ recordDone(pollState')
        /\ UNCHANGED <<isDisposed, disposedFrom, convVars>>

\* Poll.dispose().
pollDispose ==
    pollState' = [phase |-> "disposed", payload |-> NullPayload,
                  error |-> "none"]

disposeWithoutPoll ==
    /\ isDisposed' = TRUE
    /\ disposedFrom' = IF isDisposed THEN disposedFrom ELSE pollState.phase
    /\ emitted' = 0
    /\ observed' = null
    /\ raised' = <<>>
    /\ UNCHANGED <<modelVars, pollState, inflight, histVars, convVars>>

disposeKeepsTimer ==
    /\ isDisposed' = TRUE
    /\ IF inflight > 0 THEN pollDispose ELSE UNCHANGED pollState
    /\ disposedFrom' = IF isDisposed THEN disposedFrom ELSE pollState.phase
    /\ emitted' = 0
    /\ observed' = null
    /\ raised' = <<>>
    /\ UNCHANGED <<modelVars, inflight, histVars, convVars>>

\* DiskUsage.Model.dispose(): super.dispose(); this._poll.dispose().
dispose ==
    /\ isDisposed' = TRUE
    /\ pollDispose
    /\ disposedFrom' = IF isDisposed THEN disposedFrom ELSE pollState.phase
    /\ emitted' = 0
    /\ observed' = null
    /\ raised' = <<>>
    /\ UNCHANGED <<modelVars, inflight, histVars, convVars>>

----------------------------------------------------------------------------
(* Specification of the model and its poll.                                *)

InitModel ==
    /\ diskUsed = Zero
    /\ diskTotal = null
    /\ metricsAvailable = FALSE
    /\ units = "B"
    /\ warn = FALSE
    /\ pollState = [phase |-> "idle", payload |-> NullPayload,
                    error |-> "none"]
    /\ raised = <<>>
    /\ inflight = 0
    /\ isDisposed = FALSE
    /\ emitted = 0
    /\ observed = null
    /\ old = Snapshot
    /\ done = NoTick
    /\ prevDone = NoTick
    /\ disposedFrom = "none"

Init ==
    /\ InitModel
    /\ convIn = 0
    /\ convOut = null

Next ==
    \/ StartFetch
    \/ FetchResolves
    \/ FetchRejects
    \/ dispose

Spec == Init /\ [][Next]_vars

\* The timer of a live poll eventually fires and a fetch eventually settles.
SpecLive ==
    /\ Init
    /\ [][Next]_vars
    /\ WF_vars(StartFetch)
    /\ WF_vars(FetchResolves \/ FetchRejects)

----------------------------------------------------------------------------
(* Specification of the unit converter alone.                              *)

ConvBytes ==
    (0 .. MaxConvBytes)
    \cup {999999, 1000000, 1000001, 1500000,
          999999999, 1000000000, 1000000001, 2147483647}

Convert ==
    /\ convOut = null
    /\ convOut' = convertToLargestUnit(convIn)
    /\ UNCHANGED <<modelVars, pollState, raised, inflight, isDisposed, emitted,
                   observed, histVars, disposedFrom, convIn>>

InitConv ==
    /\ InitModel
    /\ convIn \in ConvBytes
    /\ convOut = null

NextConv == Convert

SpecConv == InitConv /\ [][NextConv]_vars

----------------------------------------------------------------------------
(* Properties.                                                             *)

Units == {"B", "KB", "MB", "GB"}

Unavailable ==
    [used |-> Zero, total |-> null, unit |-> "B", available |-> FALSE,
     warn |-> FALSE]

\* The state is the one a completed tick has just produced.
JustTicked == pollState.phase \in {"resolved", "rejected"}

FieldsDiffer ==
    \/ diskUsed # old.used
    \/ units # old.unit
    \/ diskTotal # old.total
    \/ metricsAvailable # old.available

lacksUsed(p) == p.isNull \/ ~p.hasUsed

samePayload(p, q) == p = q \/ (lacksUsed(p) /\ lacksUsed(q))

\* C1: a resolved or rejected tick emits a change notification exactly when
\* one of used, unit, total, available differs from the snapshot held just
\* before the tick, and it never emits more than one.
C1_NotifyIffChanged ==
    JustTicked => /\ emitted \in {0, 1}
                  /\ (emitted = 1) <=> FieldsDiffer

C1_Witness ==
    /\ pollState.phase = "resolved"
    /\ old.available /\ metricsAvailable
    /\ diskTotal # old.total /\ diskUsed = old.used /\ units = old.unit
    /\ emitted = 1

\* C2: the second of two consecutive resolved ticks with the same payload
\* (or both null / lacking disk_used) emits nothing and leaves the snapshot
\* as it was.
C2_Idempotent ==
    ( /\ pollState.phase = "resolved"
      /\ prevDone.phase = "resolved"
      /\ samePayload(done.payload, prevDone.payload) )
    => (emitted = 0 /\ Snapshot = old)

C2_Witness ==
    /\ pollState.phase = "resolved"
    /\ prevDone.phase = "resolved"
    /\ done.payload = prevDone.payload
    /\ done.payload.hasUsed /\ done.payload.hasTotal
    /\ done.payload.disk_used = 1500
    /\ emitted = 0

\* C3: a rejected tick on an unavailable model (the initial state included)
\* emits nothing; on an available model it emits exactly once and leaves the
\* model unavailable.
C3_RejectedAntiChatter ==
    pollState.phase = "rejected" =>
        /\ ~old.available => emitted = 0
        /\ old.available => (emitted = 1 /\ ~metricsAvailable)

C3_Witness ==
    /\ pollState.phase = "rejected"
    /\ prevDone.phase = "rejected"
    /\ ~old.available
    /\ emitted = 0

\* C4: once dispose() has been called no step emits a change notification or
\* modifies used, total, unit, available or warn; the outcome of a fetch that
\* was in flight at disposal is discarded.
C4_DisposedModelIsFrozen ==
    [][isDisposed => (emitted' = 0 /\ UNCHANGED modelVars)]_vars

C4_Witness ==
    /\ isDisposed
    /\ disposedFrom = "pending"
    /\ inflight = 0

\* C5: once dispose() has been called the poll is stopped: no tick is raised
\* and no fetch is started, whatever the phase at disposal.
C5_DisposedPollIsStopped ==
    [][isDisposed => (pollState' = pollState /\ inflight' <= inflight)]_vars

C5_Witness ==
    /\ isDisposed
    /\ disposedFrom = "rejected"
    /\ pollState.phase = "disposed"
    /\ inflight = 0

\* C6: an unavailable model holds used = 0, no total and the unit B.
C6_UnavailableIsEmpty ==
    ~metricsAvailable =>
        (diskUsed = Zero /\ diskTotal = null /\ units = "B")

C6_Witness ==
    /\ pollState.phase = "rejected"
    /\ old.available
    /\ old.total # null
    /\ ~metricsAvailable

\* C7: the held unit is the largest unit in which the held used value is at
\* least 1, and B when used is 0.
C7_UnitIsLargest ==
    /\ diskUsed = Zero => units = "B"
    /\ units # "B" => diskUsed[1] >= diskUsed[2]
    /\ \A u \in Units :
          MEMORY_UNIT_LIMITS[u] > MEMORY_UNIT_LIMITS[units] =>
             diskUsed[1] <
               diskUsed[2] *
                 (MEMORY_UNIT_LIMITS[u] \div MEMORY_UNIT_LIMITS[units])

C7_Witness ==
    /\ pollState.phase = "rejected"
    /\ old.unit = "GB"
    /\ units = "B"

\* C8: convertToLargestUnit(b) = (v, u) with v = b / multiplier(u), v >= 1
\* unless u is B, and b below every larger multiplier; and
\* convertToLargestUnit(0) = (0, B).
C8_ConvertToLargestUnit ==
    convOut # null =>
        LET v == convOut[1]
            u == convOut[2]
        IN  /\ u \in Units
            /\ v = Div(convIn, MEMORY_UNIT_LIMITS[u])
            /\ MEMORY_UNIT_LIMITS[u] % v[2] = 0
            /\ v[1] * (MEMORY_UNIT_LIMITS[u] \div v[2]) = convIn
            /\ u # "B" => v[1] >= v[2]
            /\ \A w \in Units :
                  MEMORY_UNIT_LIMITS[w] > MEMORY_UNIT_LIMITS[u] =>
                     convIn < MEMORY_UNIT_LIMITS[w]
            /\ convIn = 0 => (v = Zero /\ u = "B")

C8_Witness ==
    /\ convIn = 1000
    /\ convOut = <<(<<1, 1>>), "KB">>

\* C9: a resolved tick with a payload that is null or lacks disk_used leaves
\* the unavailable snapshot with warn false; any other payload leaves
\* available = true, (used, unit) = convertToLargestUnit(disk_used) and
\* total = disk_total / multiplier(unit) when disk_total is present and
\* non-zero, absent otherwise.
C9_ResolvedSnapshot ==
    pollState.phase = "resolved" =>
        LET p == pollState.payload
        IN  IF lacksUsed(p)
            THEN Snapshot = Unavailable
            ELSE /\ metricsAvailable
                 /\ <<diskUsed, units>> = convertToLargestUnit(p.disk_used)
                 /\ IF p.hasTotal /\ p.disk_total # 0
                    THEN /\ diskTotal # null
                         /\ MEMORY_UNIT_LIMITS[units] % diskTotal[2] = 0
                         /\ diskTotal[1] *
                              (MEMORY_UNIT_LIMITS[units] \div diskTotal[2])
                              = p.disk_total
                    ELSE diskTotal = null

C9_Witness ==
    /\ pollState.phase = "resolved"
    /\ pollState.payload.hasUsed
    /\ pollState.payload.disk_used = 1500
    /\ pollState.payload.disk_total = 2048
    /\ units = "KB"
    /\ diskTotal = <<256, 125>>

\* C10: after a rejected tick, whatever the error and the prior snapshot, the
\* snapshot is used 0, total absent, unit B, available false, warn false.
C10_RejectedSnapshot ==
    pollState.phase = "rejected" => Snapshot = Unavailable

C10_Witness ==
    /\ pollState.phase = "rejected"
    /\ pollState.error = "MalformedResponse"
    /\ old.available
    /\ old.unit = "KB"
    /\ Snapshot = Unavailable

\* C11: the first resolved tick after a rejected tick, when its payload has
\* disk_used, sets available = true with used, unit and total derived from
\* that payload alone, and emits exactly one change notification.
C11_Recovery ==
    ( /\ pollState.phase = "resolved"
      /\ prevDone.phase = "rejected"
      /\ pollState.payload.hasUsed )
    => LET p == pollState.payload
       IN  /\ metricsAvailable
           /\ <<diskUsed, units>> = convertToLargestUnit(p.disk_used)
           /\ diskTotal = scaleTotal(p, pickUnit(p.disk_used, 1))
           /\ ~warn
           /\ emitted = 1

C11_Witness ==
    /\ pollState.phase = "resolved"
    /\ prevDone.phase = "rejected"
    /\ pollState.payload.hasUsed
    /\ pollState.payload.disk_used = 0
    /\ ~pollState.payload.hasTotal
    /\ metricsAvailable
    /\ emitted = 1

\* C12: at most one fetch is in flight: a fetch is outstanding exactly while
\* the poll is pending, and none is while it is idle, resolved or rejected,
\* the phases from which the next one is started.
C12_OneFetchInFlight ==
    /\ inflight \in {0, 1}
    /\ pollState.phase = "pending" => inflight = 1
    /\ pollState.phase \in {"idle", "resolved", "rejected"} => inflight = 0

C12_Witness ==
    /\ pollState.phase = "pending"
    /\ inflight = 1
    /\ done.phase = "rejected"
    /\ prevDone.phase = "resolved"

\* C14: while the model is not disposed the poll has no terminal state: after
\* every resolved or rejected tick a further fetch is eventually started, and
\* every started fetch eventually settles, unless the model is disposed.
C14_KeepsPolling ==
    /\ (pollState.phase \in {"resolved", "rejected"})
          ~> (pollState.phase = "pending" \/ isDisposed)
    /\ (pollState.phase = "pending")
          ~> (pollState.phase \in {"resolved", "rejected"} \/ isDisposed)

C14_Witness ==
    /\ pollState.phase = "pending"
    /\ inflight = 1
    /\ done.phase = "rejected"
    /\ prevDone.phase = "rejected"
    /\ ~isDisposed

\* C15 as stated: a resolved tick whose body is null, lacks disk_used or
\* lacks disk_total leaves the model unavailable.
C15_AnyOtherShapeUnavailable ==
    ( /\ pollState.phase = "resolved"
      /\ \/ pollState.payload.isNull
         \/ ~pollState.payload.hasUsed
         \/ ~pollState.payload.hasTotal )
    => ~metricsAvailable

\* C15, amended: a resolved tick whose body is null or lacks disk_used leaves
\* the model unavailable; a body that has disk_used but lacks disk_total
\* leaves it available with total absent.
C15_ShapeHandling ==
    pollState.phase = "resolved" =>
        LET p == pollState.payload
        IN  /\ lacksUsed(p) => Snapshot = Unavailable
            /\ (~lacksUsed(p) /\ ~p.hasTotal) =>
                  (metricsAvailable /\ diskTotal = null)

C15_Witness ==
    /\ pollState.phase = "resolved"
    /\ pollState.payload.hasUsed
    /\ ~pollState.payload.hasTotal
    /\ pollState.payload.disk_used = 512
    /\ metricsAvailable
    /\ diskTotal = null

\* C16: whenever a change notification is emitted, on the resolved and on the
\* rejected path, the accessors already return the new used, total, unit and
\* available: the observer never sees a mix of old and new fields.
C16_AtomicReplacement ==
    emitted > 0 =>
        /\ observed # null
        /\ observed.used = diskUsed
        /\ observed.total = diskTotal
        /\ observed.unit = units
        /\ observed.available = metricsAvailable

C16_Witness ==
    /\ pollState.phase = "rejected"
    /\ emitted = 1
    /\ old.unit = "KB"
    /\ old.total # null
    /\ observed = Unavailable

\* C17: the poll starts idle; resolved and rejected are entered only from
\* pending, pending only from idle, resolved or rejected; and each of these
\* transitions raises exactly one ticked event, which carries the new phase
\* with its payload or error.
C17_PhaseOrdering ==
    /\ pollState.phase = "idle"
    /\ [][ /\ pollState' # pollState =>
                /\ pollState'.phase # "idle"
                /\ pollState'.phase \in {"resolved", "rejected"} =>
                      pollState.phase = "pending"
                /\ pollState'.phase = "pending" =>
                      pollState.phase \in {"idle", "resolved", "rejected"}
                /\ pollState'.phase # "disposed" =>
                      raised' = <<pollState'>>
           /\ (pollState' = pollState /\ raised' # raised) =>
                raised' = <<>>
         ]_vars

C17_Witness ==
    /\ pollState.phase = "rejected"
    /\ raised = <<pollState>>
    /\ pollState.error = "NetworkFailure"
    /\ prevDone.phase = "resolved"

\* C18: the warning flag is false in every reachable state.
C18_NeverWarns ==
    ~warn

C18_Witness ==
    /\ pollState.phase = "resolved"
    /\ pollState.payload.hasUsed /\ pollState.payload.hasTotal
    /\ pollState.payload.disk_used = 2000000000
    /\ pollState.payload.disk_total = 2048
    /\ metricsAvailable
    /\ ~warn

\* C19: a ticked event whose phase is neither resolved nor rejected leaves
\* used, total, unit, available and warn unchanged and emits no change
\* notification.
C19_OtherPhasesIgnored ==
    [][ ( /\ pollState' # pollState
          /\ Len(raised') = 1
          /\ raised'[1].phase \notin {"resolved", "rejected"} )
        => (UNCHANGED modelVars /\ emitted' = 0) ]_vars

C19_Witness ==
    /\ pollState.phase = "pending"
    /\ raised = <<pollState>>
    /\ metricsAvailable
    /\ units = "GB"
    /\ diskTotal # null
    /\ emitted = 0

\* C20: render produces the empty element whenever total is absent, which
\* includes every unavailable state and the available states whose
\* disk_total was 0 or missing; it formats a text only when total is present
\* and never applies toFixed to an absent total.
C20_RenderNeedsTotal ==
    /\ (~metricsAvailable \/ diskTotal = null) => render = EmptyDiv
    /\ render.element = "TextItem" <=> diskTotal # null
    /\ ~render.used.threw
    /\ ~render.total.threw

C20_Witness ==
    /\ metricsAvailable
    /\ diskTotal = null
    /\ diskUsed = <<3, 2>>
    /\ render = EmptyDiv

====
